---------------------------- MODULE Spec2Model ----------------------------
(***************************************************************************)
(* State-machine model of gameLogic.h: Board, Snake, FoodManager,          *)
(* CollisionDetector, DirectionController, StatePublisher and the          *)
(* SnakeGameLogic orchestrator.                                            *)
(*                                                                         *)
(* Three specifications share the variables and the operators:             *)
(*   Spec        the simulation thread and the input thread; update() and  *)
(*               initializeBoard() are single steps (the simulation thread *)
(*               is the only mutator of the game objects and meets the     *)
(*               input thread in exactly one atomic exchange);             *)
(*   SpecThreads the simulation thread with publish() split into its field *)
(*               copies and its atomic store, interleaved with a reader    *)
(*               thread calling getState(), on small boards;               *)
(*   SpecRestart Spec on small boards with initializeBoard called again.   *)
(***************************************************************************)
EXTENDS Integers, Sequences, FiniteSets, TLC

\* ------------------------------------------------------------------------
\* Enumerations (gameLogic.h, Direction and CellType)
\* ------------------------------------------------------------------------
UP == 0
DOWN == 1
LEFT == 2
RIGHT == 3
NONE == 4

EMPTY == 0
SNAKE == 1
FOOD == 2
WALL == 3

Directions == {UP, DOWN, LEFT, RIGHT, NONE}

\* ------------------------------------------------------------------------
\* Bounds of the model
\* ------------------------------------------------------------------------
MaxCells == 6          \* Spec: boards of at most this many cells
MaxLength == 3         \* Spec: starting lengths 1 .. MaxLength
MaxPoints == 2         \* points per food: 1 or MaxPoints
ThreadCells == 3       \* SpecThreads: boards of at most this many cells
ThreadLength == 2      \* SpecThreads: starting lengths 1 .. ThreadLength
MaxPublishes == 4      \* SpecThreads: publish calls
RestartCells == 2      \* SpecRestart: boards of at most this many cells
MaxGames == 2          \* SpecRestart: initializeBoard calls
MaxTicks == 8          \* the count of an unsteered game's ticks stops here

\* The board sizes with at most n cells.
BoardSizes(n) == {d \in (1 .. n) \X (1 .. n) : d[1] * d[2] <= n}

\* ------------------------------------------------------------------------
\* State
\* ------------------------------------------------------------------------
VARIABLES
    grid, rows, cols,                        \* Board
    body, growthPending,                     \* Snake
    position, exists,                        \* FoodManager
    current, next, atomicInput,              \* DirectionController
    currentState, writeBuffer, readBuffer,   \* StatePublisher
    heap,                                    \* the two GameState objects
    score, pointsPerFood, gameOver,          \* SnakeGameLogic
    ret,                                     \* what the last update() returned
    early,                                   \* the last update() returned at its first test
    inputDir, newHead,                       \* locals of the last processInput/update
    requested, fresh,                        \* argument of the last setInput; no take since
    lostRequest,                             \* the last setInput overwrote a request
    games,                                   \* initializeBoard calls so far
    newGame,                                 \* no setInput or update() since initializeBoard
    steered,                                 \* setInput has been called
    ticks,                                   \* ticks of this game while not steered
    pc,                                      \* publish(): 0 idle, k next field, then store
    publishes, stamp,                        \* publish count; publish number per buffer
    epoch,                                   \* games whose first snapshot is published
    held, heldValue, heldStamp, prevStamp    \* reader: last getState() and what it saw

boardVars == <<grid, rows, cols>>
snakeVars == <<body, growthPending>>
foodVars == <<position, exists>>
dirVars == <<current, next>>
pubVars == <<currentState, writeBuffer, readBuffer, heap>>
logicVars == <<score, pointsPerFood, gameOver>>
gameVars == <<boardVars, snakeVars, foodVars, dirVars, logicVars>>

threadVars == <<pc, publishes, stamp, epoch>>
readerVars == <<held, heldValue, heldStamp, prevStamp>>

callVars == <<ret, early, inputDir, newHead>>
inputVars == <<atomicInput, requested, fresh, lostRequest>>

vars ==
    <<gameVars, inputVars, pubVars, callVars, games, newGame, steered, ticks,
      threadVars, readerVars>>

\* ------------------------------------------------------------------------
\* Board
\* ------------------------------------------------------------------------
Cells(rws, cls) == (0 .. rws - 1) \X (0 .. cls - 1)

\* Board::initialize: rows x cols cells, all EMPTY
BoardInitialize(rws, cls) == [p \in Cells(rws, cls) |-> EMPTY]

isInBounds(rws, cls, r, c) == r >= 0 /\ r < rws /\ c >= 0 /\ c < cls

getCellType(g, rws, cls, r, c) ==
    IF ~isInBounds(rws, cls, r, c) THEN WALL ELSE g[<<r, c>>]

setCellType(g, rws, cls, r, c, cellType) ==
    IF isInBounds(rws, cls, r, c) THEN [g EXCEPT ![<<r, c>>] = cellType] ELSE g

\* The positions getEmptyCells returns (placeRandom picks any one of them).
getEmptyCells(g) == {p \in DOMAIN g : g[p] = EMPTY}

\* ------------------------------------------------------------------------
\* Snake
\* ------------------------------------------------------------------------
\* The i-th segment (i = 0 is the head) laid out by Snake::initialize.
InitialSegment(startPos, i, direction) ==
    CASE direction = RIGHT -> <<startPos[1], startPos[2] - i>>
      [] direction = LEFT  -> <<startPos[1], startPos[2] + i>>
      [] direction = UP    -> <<startPos[1] + i, startPos[2]>>
      [] direction = DOWN  -> <<startPos[1] - i, startPos[2]>>
      [] OTHER             -> startPos

SnakeInitializeBody(startPos, length, direction) ==
    [i \in 1 .. length |-> InitialSegment(startPos, i - 1, direction)]

\* The board after Snake::initialize has tagged the segments that are in bounds.
SnakeInitializeGrid(b, g, rws, cls) ==
    [p \in DOMAIN g |-> IF \E i \in 1 .. Len(b) : b[i] = p THEN SNAKE ELSE g[p]]

\* Snake::move, as the record of what it leaves behind.
SnakeMove(b, pending, head, g, rws, cls) ==
    LET pushed == <<head>> \o b
        marked == setCellType(g, rws, cls, head[1], head[2], SNAKE)
    IN  IF pending > 0
        THEN [body |-> pushed, growthPending |-> pending - 1, grid |-> marked]
        ELSE LET tail == pushed[Len(pushed)]
             IN  [body |-> SubSeq(pushed, 1, Len(pushed) - 1),
                  growthPending |-> pending,
                  grid |-> setCellType(marked, rws, cls, tail[1], tail[2], EMPTY)]

\* Mutant: a food hit grants one segment more.
growTwice(pending, amount) == pending + amount + 1

grow(pending, amount) == pending + amount

\* Mutant: the last segment, which a move would vacate, is not compared.
checkSelfCollisionSkipsTail(b, pos) == \E i \in 2 .. Len(b) - 1 : b[i] = pos

\* Mutant: no segment is ever hit.
checkSelfCollisionNever(b, pos) == FALSE

checkSelfCollision(b, pos) == \E i \in 2 .. Len(b) : b[i] = pos

\* ------------------------------------------------------------------------
\* FoodManager
\* ------------------------------------------------------------------------
\* FoodManager::remove, as the record of what it leaves behind.
FoodRemove(pos, ex, g, rws, cls) ==
    IF ex
    THEN [exists |-> FALSE, grid |-> setCellType(g, rws, cls, pos[1], pos[2], EMPTY)]
    ELSE [exists |-> ex, grid |-> g]

\* FoodManager::placeRandom with the random index drawing the cell `choice`;
\* with no empty cell the position keeps its old value.
FoodPlace(pos, g, rws, cls, choice) ==
    IF getEmptyCells(g) = {}
    THEN [position |-> pos, exists |-> FALSE, grid |-> g]
    ELSE [position |-> choice, exists |-> TRUE,
          grid |-> setCellType(g, rws, cls, choice[1], choice[2], FOOD)]

\* The cells the random index of placeRandom can draw.
FoodChoices(g) == IF getEmptyCells(g) = {} THEN {<<0, 0>>} ELSE getEmptyCells(g)

\* ------------------------------------------------------------------------
\* CollisionDetector
\* ------------------------------------------------------------------------
isOutOfBounds(pos, rws, cls) == ~isInBounds(rws, cls, pos[1], pos[2])

isWall(pos, g, rws, cls) == getCellType(g, rws, cls, pos[1], pos[2]) = WALL

isFood(pos, foodPos, ex) == ex /\ pos = foodPos

\* ------------------------------------------------------------------------
\* DirectionController
\* ------------------------------------------------------------------------
\* Mutant: every change is accepted.
isValidChangeAlways(cur, newDir) == TRUE

isValidChange(cur, newDir) ==
    /\ ~(cur = UP /\ newDir = DOWN)
    /\ ~(cur = DOWN /\ newDir = UP)
    /\ ~(cur = LEFT /\ newDir = RIGHT)
    /\ ~(cur = RIGHT /\ newDir = LEFT)

\* Mutant: the take reads the mailbox and leaves the value in it.
processInputExchangeKeeps(old) == old

\* The value atomicInput.exchange leaves in the mailbox (it returns the old).
processInputExchange(old) == NONE

\* Mutant: the taken value is dropped.
processInputNextDropped(cur, nxt, taken) == nxt

\* The value processInput leaves in `next` (and then copies to `current`).
processInputNext(cur, nxt, taken) ==
    IF taken # NONE /\ isValidChange(cur, taken) THEN taken ELSE nxt

\* Mutant: the candidate is the head itself in every heading.
getNextPositionStays(cur, currentPos) == currentPos

getNextPosition(cur, currentPos) ==
    CASE cur = UP    -> <<currentPos[1] - 1, currentPos[2]>>
      [] cur = DOWN  -> <<currentPos[1] + 1, currentPos[2]>>
      [] cur = LEFT  -> <<currentPos[1], currentPos[2] - 1>>
      [] cur = RIGHT -> <<currentPos[1], currentPos[2] + 1>>
      [] OTHER       -> currentPos

\* Mutant: a request that is still in the mailbox is kept.
setInputValueKeepPending(old, dir) == IF old # NONE THEN old ELSE dir

\* The value setInput stores in the mailbox.
setInputValue(old, dir) == dir

\* ------------------------------------------------------------------------
\* StatePublisher
\* ------------------------------------------------------------------------
\* The fields of GameState in the order publish() copies them.
FieldOrder ==
    <<"rows", "cols", "score", "gameOver", "food", "foodExists",
      "snake", "snakeLength", "board">>

\* A value-initialised GameState (make_shared<GameState>()).
EmptyGameState ==
    [rows |-> 0, cols |-> 0, score |-> 0, gameOver |-> FALSE,
     food |-> <<0, 0>>, foodExists |-> FALSE, snake |-> <<>>,
     snakeLength |-> 0, board |-> BoardInitialize(0, 0)]

\* Mutant: the terminal flag is copied as it was before the tick set it.
SnapshotOfBeforeFlag(rws, cls, sc, over, pos, ex, b, g) ==
    [rows |-> rws, cols |-> cls, score |-> sc, gameOver |-> FALSE,
     food |-> pos, foodExists |-> ex, snake |-> b,
     snakeLength |-> Len(b), board |-> g]

\* Mutant: the score is not copied.
SnapshotOfNoScore(rws, cls, sc, over, pos, ex, b, g) ==
    [rows |-> rws, cols |-> cls, score |-> 0, gameOver |-> over,
     food |-> pos, foodExists |-> ex, snake |-> b,
     snakeLength |-> Len(b), board |-> g]

\* What publish() reads from the board, the snake, the food manager and its
\* arguments.
SnapshotOf(rws, cls, sc, over, pos, ex, b, g) ==
    [rows |-> rws, cols |-> cls, score |-> sc, gameOver |-> over,
     food |-> pos, foodExists |-> ex, snake |-> b,
     snakeLength |-> Len(b), board |-> g]

\* Mutant: the store publishes the read buffer.
publishStoreTargetReadBuffer(w, r) == r

\* The buffer currentState.store publishes.
publishStoreTarget(w, r) == w

\* The write and read buffers after swap(writeBuffer, readBuffer).
publishSwap(w, r) == [writeBuffer |-> r, readBuffer |-> w]

\* publish() as one step: every field copied into the write buffer, the
\* store, the swap.  It reads the primed game variables: the caller has
\* assigned them before.
Publish ==
    /\ heap' = [heap EXCEPT ![writeBuffer] =
                   SnapshotOf(rows', cols', score', gameOver', position',
                              exists', body', grid')]
    /\ currentState' = publishStoreTarget(writeBuffer, readBuffer)
    /\ writeBuffer' = publishSwap(writeBuffer, readBuffer).writeBuffer
    /\ readBuffer' = publishSwap(writeBuffer, readBuffer).readBuffer

\* ------------------------------------------------------------------------
\* SnakeGameLogic
\* ------------------------------------------------------------------------
\* Mutant: a food hit takes the points away.
addPointsSubtracted(sc, pts) == sc - pts

addPoints(sc, pts) == sc + pts

\* State after construction: SnakeGameLogic(), its members' constructors and
\* StatePublisher().  The board's rows and cols are not set before
\* initializeBoard and are never read before it; they are modelled as 0.
Init ==
    /\ grid = BoardInitialize(0, 0) /\ rows = 0 /\ cols = 0
    /\ body = <<>> /\ growthPending = 0
    /\ position = <<0, 0>> /\ exists = FALSE
    /\ current = NONE /\ next = NONE /\ atomicInput = NONE
    /\ writeBuffer = "A" /\ readBuffer = "B" /\ currentState = "A"
    /\ heap = [b \in {"A", "B"} |-> EmptyGameState]
    /\ score = 0 /\ pointsPerFood = 10 /\ gameOver = FALSE
    /\ ret = "none" /\ early = FALSE /\ inputDir = NONE /\ newHead = <<0, 0>>
    /\ requested = NONE /\ fresh = FALSE /\ lostRequest = FALSE
    /\ games = 0 /\ newGame = FALSE /\ steered = FALSE /\ ticks = 0
    /\ pc = 0 /\ publishes = 0 /\ stamp = [b \in {"A", "B"} |-> 0] /\ epoch = 0
    /\ held = "null" /\ heldValue = EmptyGameState /\ heldStamp = 0
    /\ prevStamp = 0 - 1

\* initializeBoard up to its call of publish.
InitializeBoardBody(rws, cls, startingLength, pts, initialDirection) ==
    LET startPos == <<rws \div 2, cls \div 2>>
        newBody == SnakeInitializeBody(startPos, startingLength, initialDirection)
        snakeGrid == SnakeInitializeGrid(newBody, BoardInitialize(rws, cls), rws, cls)
    IN  /\ pointsPerFood' = pts
        /\ score' = 0
        /\ gameOver' = FALSE
        /\ rows' = rws /\ cols' = cls
        /\ current' = initialDirection /\ next' = initialDirection
        /\ body' = newBody /\ growthPending' = 0
        /\ \E choice \in FoodChoices(snakeGrid) :
              LET placed == FoodPlace(position, snakeGrid, rws, cls, choice)
              IN  /\ position' = placed.position
                  /\ exists' = placed.exists
                  /\ grid' = placed.grid
        /\ games' = games + 1
        /\ newGame' = TRUE
        /\ ticks' = 0
        /\ UNCHANGED <<inputVars, callVars, steered>>

\* update() from processInput to the statement before publish, for a game
\* that is not over.
Tick ==
    LET taken == atomicInput
        newNext == processInputNext(current, next, taken)
        head == getNextPosition(newNext, body[1])
    IN  /\ atomicInput' = processInputExchange(atomicInput)
        /\ fresh' = FALSE
        /\ UNCHANGED <<requested, lostRequest>>
        /\ inputDir' = taken
        /\ newHead' = head
        /\ early' = FALSE
        /\ next' = newNext
        /\ current' = newNext
        /\ IF \/ isOutOfBounds(head, rows, cols)
              \/ isWall(head, grid, rows, cols)
              \/ checkSelfCollision(body, head)
           THEN /\ gameOver' = TRUE
                /\ ret' = "false"
                /\ UNCHANGED <<boardVars, snakeVars, foodVars, score, pointsPerFood>>
           ELSE LET ate == isFood(head, position, exists)
                    pending == IF ate THEN grow(growthPending, 1) ELSE growthPending
                    removed == IF ate
                               THEN FoodRemove(position, exists, grid, rows, cols)
                               ELSE [exists |-> exists, grid |-> grid]
                    moved == SnakeMove(body, pending, head, removed.grid, rows, cols)
                IN  /\ score' = IF ate THEN addPoints(score, pointsPerFood) ELSE score
                    /\ body' = moved.body
                    /\ growthPending' = moved.growthPending
                    /\ \E choice \in (IF removed.exists THEN {position}
                                                        ELSE FoodChoices(moved.grid)) :
                          LET placed == IF removed.exists
                                        THEN [position |-> position, exists |-> TRUE,
                                              grid |-> moved.grid]
                                        ELSE FoodPlace(position, moved.grid, rows,
                                                       cols, choice)
                              won == ~placed.exists /\ ~(moved.growthPending > 0)
                          IN  /\ position' = placed.position
                              /\ exists' = placed.exists
                              /\ grid' = placed.grid
                              /\ gameOver' = won
                              /\ ret' = IF won THEN "false" ELSE "true"
                    /\ UNCHANGED <<rows, cols, pointsPerFood>>
        /\ newGame' = FALSE
        /\ ticks' = IF ~steered /\ ticks < MaxTicks THEN ticks + 1 ELSE ticks
        /\ UNCHANGED <<games, steered>>

\* Mutant: the early return takes the pending input first.
UpdateOverTakesInput ==
    /\ gameOver
    /\ ret' = "false"
    /\ early' = TRUE
    /\ atomicInput' = NONE
    /\ fresh' = FALSE
    /\ UNCHANGED <<gameVars, requested, lostRequest, inputDir, newHead, games,
                   newGame, steered, ticks>>

\* update() on a game that is over: return false, nothing else.
UpdateOver ==
    /\ gameOver
    /\ ret' = "false"
    /\ early' = TRUE
    /\ UNCHANGED <<gameVars, inputVars, inputDir, newHead, games, newGame,
                   steered, ticks>>

\* ---- the handlers as single steps (Spec) ----
InitializeBoard ==
    /\ games = 0
    /\ \E d \in BoardSizes(MaxCells), len \in 1 .. MaxLength,
          pts \in {1, MaxPoints}, dir \in Directions :
          InitializeBoardBody(d[1], d[2], len, pts, dir)
    /\ Publish
    /\ UNCHANGED <<threadVars, readerVars>>

\* Mutant: setInput steers at once.
SetDirectionImmediate ==
    /\ \E dir \in Directions :
          /\ atomicInput' = setInputValue(atomicInput, dir)
          /\ requested' = dir
          /\ current' = dir
    /\ fresh' = TRUE
    /\ lostRequest' = (atomicInput # NONE)
    /\ newGame' = FALSE
    /\ steered' = TRUE
    /\ ticks' = 0
    /\ UNCHANGED <<boardVars, snakeVars, foodVars, next, logicVars, pubVars,
                   callVars, games, threadVars, readerVars>>

\* setDirection -> DirectionController::setInput
SetDirection ==
    /\ \E dir \in Directions :
          /\ atomicInput' = setInputValue(atomicInput, dir)
          /\ requested' = dir
    /\ fresh' = TRUE
    /\ lostRequest' = (atomicInput # NONE)
    /\ newGame' = FALSE
    /\ steered' = TRUE
    /\ ticks' = 0
    /\ UNCHANGED <<gameVars, pubVars, callVars, games, threadVars, readerVars>>

\* update() is called on an initialised game with a snake (getHead() of an
\* empty deque is outside the handler's contract).
Update ==
    /\ Len(body) > 0
    /\ \/ /\ UpdateOver
          /\ UNCHANGED pubVars
       \/ /\ ~gameOver
          /\ Tick
          /\ Publish
    /\ UNCHANGED <<threadVars, readerVars>>

\* The accessors of the render thread: reads of the published snapshot.
getScore == heap[currentState].score

isGameOver == heap[currentState].gameOver

Next == InitializeBoard \/ SetDirection \/ Update

Spec == Init /\ [][Next]_vars

\* ---- the handlers with publish() in steps, and a reader (SpecThreads) ----
\* The live values publish() copies, field by field.
LiveSnapshot ==
    SnapshotOf(rows, cols, score, gameOver, position, exists, body, grid)

\* initializeBoard up to its call of publish.
ThreadInitializeBoard ==
    /\ pc = 0
    /\ games = 0
    /\ \E d \in BoardSizes(ThreadCells), len \in 1 .. ThreadLength,
          pts \in {MaxPoints}, dir \in Directions :
          InitializeBoardBody(d[1], d[2], len, pts, dir)
    /\ pc' = 1
    /\ UNCHANGED <<pubVars, publishes, stamp, epoch, readerVars>>

\* update() up to its call of publish, or its early return.
ThreadUpdate ==
    /\ pc = 0
    /\ Len(body) > 0
    /\ \/ /\ UpdateOver
          /\ pc' = 0
       \/ /\ ~gameOver
          /\ publishes < MaxPublishes
          /\ Tick
          /\ pc' = 1
    /\ UNCHANGED <<pubVars, publishes, stamp, epoch, readerVars>>

\* One assignment of publish(): writeBuffer->field = value.
PublishCopy ==
    /\ pc \in 1 .. Len(FieldOrder)
    /\ heap' = [heap EXCEPT ![writeBuffer][FieldOrder[pc]] = LiveSnapshot[FieldOrder[pc]]]
    /\ stamp' = [stamp EXCEPT ![writeBuffer] = publishes + 1]
    /\ pc' = pc + 1
    /\ UNCHANGED <<gameVars, inputVars, callVars, games, newGame, steered,
                   ticks, publishes, epoch, currentState, writeBuffer,
                   readBuffer, readerVars>>

\* currentState.store(writeBuffer) and swap(writeBuffer, readBuffer).
PublishStore ==
    /\ pc = Len(FieldOrder) + 1
    /\ currentState' = publishStoreTarget(writeBuffer, readBuffer)
    /\ writeBuffer' = publishSwap(writeBuffer, readBuffer).writeBuffer
    /\ readBuffer' = publishSwap(writeBuffer, readBuffer).readBuffer
    /\ publishes' = publishes + 1
    /\ epoch' = games
    /\ pc' = 0
    /\ UNCHANGED <<gameVars, inputVars, callVars, games, newGame, steered,
                   ticks, heap, stamp, readerVars>>

\* getState(): one atomic load; the reader keeps the reference.  heldValue
\* and heldStamp record what the snapshot held when it was returned.
GetState ==
    /\ held' = currentState
    /\ heldValue' = heap[currentState]
    /\ heldStamp' = stamp[currentState]
    /\ prevStamp' = IF held = "null" THEN 0 - 1 ELSE heldStamp
    /\ UNCHANGED <<gameVars, inputVars, pubVars, callVars, games, newGame,
                   steered, ticks, threadVars>>

ThreadNext ==
    \/ ThreadInitializeBoard
    \/ ThreadUpdate
    \/ PublishCopy
    \/ PublishStore
    \/ GetState

SpecThreads == Init /\ [][ThreadNext]_vars

\* ---- a new game on the same objects (SpecRestart) ----
\* A replay follows a game that is over (README, Gameplay Rules).  Every game
\* of SpecRestart starts with a single segment and MaxPoints points per food.
RestartInitializeBoard ==
    /\ games < MaxGames
    /\ games = 0 \/ gameOver
    /\ \E d \in BoardSizes(RestartCells), dir \in Directions :
          InitializeBoardBody(d[1], d[2], 1, MaxPoints, dir)
    /\ Publish
    /\ UNCHANGED <<threadVars, readerVars>>

RestartNext == RestartInitializeBoard \/ SetDirection \/ Update

SpecRestart == Init /\ [][RestartNext]_vars

\* ========================================================================
\* Claims
\* ========================================================================
InPublish == pc # 0

\* C1 (SpecThreads, as stated): once getState() has returned a snapshot,
\* every field of it keeps the value it had at that return for as long as
\* the reader holds the reference.
C1_SnapshotNeverMutated == held # "null" => heap[held] = heldValue

\* C2 (SpecThreads, as stated): while publish() is copying fields into its
\* write buffer, that buffer is not the one currentState points to.
C2_WriteBufferNotPublished == InPublish => writeBuffer # currentState

\* C3 (SpecThreads): a getState() that follows one which returned the
\* snapshot of publish N returns the snapshot of a publish M >= N.
C3_ReaderNeverGoesBack == heldStamp >= prevStamp

\* C3 witness: two successive getState() calls, the second returning a newer
\* snapshot than the first, which was itself a published one.
C3_Witness == prevStamp >= 1 /\ heldStamp > prevStamp

\* The score of the snapshot a getState() at this instant returns.
CurrentScore == heap[currentState].score

Headings == {UP, DOWN, LEFT, RIGHT}

Opposite(d) ==
    CASE d = UP -> DOWN [] d = DOWN -> UP [] d = LEFT -> RIGHT
      [] d = RIGHT -> LEFT [] OTHER -> 0 - 1

UnitStep(pos, d) ==
    CASE d = UP    -> <<pos[1] - 1, pos[2]>>
      [] d = DOWN  -> <<pos[1] + 1, pos[2]>>
      [] d = LEFT  -> <<pos[1], pos[2] - 1>>
      [] d = RIGHT -> <<pos[1], pos[2] + 1>>
      [] OTHER     -> pos

\* The heading after a take of d under heading h, as the claims state it.
ExpectedHeading(h, d) == IF d # NONE /\ d # Opposite(h) THEN d ELSE h

SnakeCells(g) == {p \in DOMAIN g : g[p] = SNAKE}
SegmentSet(b) == {b[i] : i \in 1 .. Len(b)}

\* A step that is an update() call on a game that is not over.
UpdateTick == ~gameOver /\ Len(body) > 0 /\ Tick /\ Publish

\* C5 (Spec, as stated): after every publish the SnakeBody cells of the
\* board are exactly the snake's segment positions, as many as its segments.
C5_BoardSnakeAgreement ==
    games >= 1 =>
        LET snap == heap[currentState]
        IN  /\ SnakeCells(snap.board) = SegmentSet(snap.snake)
            /\ Cardinality(SnakeCells(snap.board)) = snap.snakeLength

\* C6 (Spec, as stated): no two segments of the snake share a position.
C6_SegmentsDistinct ==
    \A i, j \in 1 .. Len(body) : i # j => body[i] # body[j]

\* C7 (Spec, as stated): an update whose candidate head is the food's
\* position adds pointsPerFood to the score and one segment to the snake; an
\* update that moves without hitting food changes neither.
C7_FoodHitAccounting ==
    [][UpdateTick =>
        /\ (exists /\ newHead' = position) =>
              score' = score + pointsPerFood /\ Len(body') = Len(body) + 1
        /\ (~(exists /\ newHead' = position) /\ ret' = "true") =>
              score' = score /\ Len(body') = Len(body)]_vars

\* C8 (Spec): an update that takes the opposite of the heading leaves the
\* heading as it is, and no update turns a heading into its opposite.
C8_ReversalRejected ==
    [][UpdateTick =>
        /\ (current \in Headings /\ atomicInput = Opposite(current)) =>
              current' = current
        /\ ~(current \in Headings /\ current' = Opposite(current))]_vars

\* C8 witness: the last update took the opposite of the heading it left.
C8_Witness == ret # "none" /\ current \in Headings /\ inputDir = Opposite(current)

\* C9 (Spec): the value an update takes becomes the heading before the
\* candidate head is computed when it is a direction other than the opposite
\* of the heading, and otherwise the heading stays; the update moves, or
\* collides, one unit step in the resulting heading.
C9_InputTakesEffectSameTick ==
    [][UpdateTick =>
        LET h == ExpectedHeading(current, atomicInput)
        IN  /\ current' = h
            /\ newHead' = UnitStep(body[1], h)
            /\ \/ body'[1] = newHead' /\ Len(body') >= Len(body)
               \/ gameOver' /\ ret' = "false" /\ body' = body]_vars

\* C9 witness: the last update took a direction, made it the heading and
\* moved the head one step that way, turning away from the previous step.
C9_Witness ==
    /\ ret = "true" /\ Len(body) >= 3
    /\ inputDir # NONE /\ current = inputDir
    /\ body[1] = newHead /\ body[1] = UnitStep(body[2], inputDir)
    /\ body[2] # UnitStep(body[3], inputDir)

\* C10 (Spec): an update examines the argument of the last setInput made
\* since the previous take (None when there was none), whatever was
\* requested before it.
C10_LastWriterWins ==
    [][UpdateTick =>
        /\ inputDir' = (IF fresh THEN requested ELSE NONE)
        /\ current' = ExpectedHeading(current, IF fresh THEN requested ELSE NONE)
        /\ atomicInput' = NONE]_vars

\* C10 witness: the last setInput overwrote a request that had not been
\* taken, no setInput followed the take, and the take got its argument.
C10_Witness ==
    /\ ret # "none" /\ ~fresh /\ lostRequest
    /\ inputDir # NONE /\ inputDir = requested /\ current = inputDir

\* C11 (SpecRestart): an update() on a game that is over returns false and
\* leaves the board, the snake, the food, the score, the heading, the flag,
\* the publisher and the pending input as they are; the flag stays set over
\* every step that is not an initializeBoard call.
C11_TerminalAbsorbing ==
    [][/\ (gameOver /\ Update) =>
             /\ ret' = "false"
             /\ UNCHANGED <<grid, rows, cols, body, growthPending, position,
                            exists, score, current, next, gameOver,
                            currentState, writeBuffer, readBuffer, heap,
                            atomicInput>>
       /\ (gameOver /\ games' = games) => gameOver']_vars

\* C11 witness: update() has returned early on a game that is over while a
\* direction was pending, and the direction is still pending.
C11_Witness ==
    /\ gameOver /\ early /\ ret = "false"
    /\ atomicInput # NONE /\ lostRequest
    /\ heap[currentState].gameOver

\* C12 (Spec): an update() on a game that is not over publishes once, on
\* every path: the buffer that was the write buffer is the published one, the
\* two buffers have changed roles once, the other buffer is as it was, and
\* the published snapshot holds the state the call leaves behind (nothing
\* changes after the publish).
C12_OnePublishPerTick ==
    [][UpdateTick =>
        /\ currentState' = writeBuffer
        /\ writeBuffer' = readBuffer /\ readBuffer' = writeBuffer
        /\ heap'[writeBuffer'] = heap[writeBuffer']
        /\ heap'[currentState'] =
              [rows |-> rows', cols |-> cols', score |-> score',
               gameOver |-> gameOver', food |-> position',
               foodExists |-> exists', snake |-> body',
               snakeLength |-> Len(body'), board |-> grid']]_vars

\* C12 witness: the last update() ended the game and its snapshot, the
\* published one, holds the terminal state; the other buffer holds the
\* snapshot of the tick before it.
C12_Witness ==
    /\ ret = "false" /\ ~early /\ gameOver
    /\ currentState = readBuffer
    /\ heap[currentState].gameOver /\ heap[currentState].snake = body
    /\ heap[currentState].board = grid /\ heap[currentState].score = score
    /\ ~heap[writeBuffer].gameOver /\ heap[writeBuffer].rows = rows
    /\ heap[writeBuffer].snakeLength > 0

\* The candidate head of an update() as the claims state it: one unit step
\* from the head in the heading the pending input leaves.
Candidate == UnitStep(body[1], ExpectedHeading(current, atomicInput))

\* C13 (Spec): an update() whose candidate head is outside the grid or is the
\* position of a segment other than the head returns false, publishes a
\* snapshot with gameOver = true, and leaves score, body, board and food as
\* they were.
C13_CollisionNoSideEffects ==
    [][(UpdateTick /\ (\/ ~(Candidate \in DOMAIN grid)
                       \/ \E i \in 2 .. Len(body) : body[i] = Candidate)) =>
        /\ ret' = "false"
        /\ gameOver'
        /\ heap'[currentState'].gameOver
        /\ heap'[currentState'].score = score
        /\ heap'[currentState'].snake = body
        /\ heap'[currentState'].board = grid
        /\ UNCHANGED <<score, body, growthPending, grid, position, exists>>]_vars

\* C13 witness: the last update() ended a game with points on the score by
\* running the head into a segment of a snake whose segments are all apart
\* and inside the grid.
C13_Witness ==
    /\ ret = "false" /\ ~early /\ gameOver /\ score > 0
    /\ \E i \in 2 .. Len(body) : body[i] = newHead
    /\ \A i, j \in 1 .. Len(body) : i # j => body[i] # body[j]
    /\ \A i \in 1 .. Len(body) : body[i] \in DOMAIN grid
    /\ heap[currentState].gameOver /\ heap[currentState].snake = body

\* C14 (Spec, as stated): an update() with no growth pending that eats the
\* food lying on the only cell of the board no segment is on ends the game:
\* it returns false, the published snapshot has gameOver = true and
\* foodExists = false, and the snake is on every cell of the board.
C14_WinBySaturation ==
    [][(/\ UpdateTick
        /\ exists /\ Candidate = position /\ growthPending = 0
        /\ DOMAIN grid \ SegmentSet(body) = {position}) =>
        /\ ret' = "false"
        /\ gameOver'
        /\ heap'[currentState'].gameOver
        /\ ~heap'[currentState'].foodExists
        /\ DOMAIN grid \subseteq SegmentSet(body')]_vars

\* C15 (Spec, as stated): no initializeBoard call leaves a snake with a
\* segment outside the grid (a call whose starting length does not fit the
\* board is rejected instead).
C15_DegenerateInitRejected ==
    [][games' # games =>
        \A i \in 1 .. Len(body') : body'[i] \in DOMAIN grid']_vars

FoodCells(g) == {p \in DOMAIN g : g[p] = FOOD}

\* C16 (Spec, as stated): after initializeBoard and after every update, when
\* food exists its cell is tagged Food and no segment is at its position;
\* the board has at most one Food cell, and none when no food exists.
C16_FoodInvariant ==
    games >= 1 =>
        /\ exists => /\ position \in DOMAIN grid
                     /\ grid[position] = FOOD
                     /\ ~(position \in SegmentSet(body))
        /\ Cardinality(FoodCells(grid)) <= 1
        /\ ~exists => FoodCells(grid) = {}

\* Two positions one unit step apart: one row or one column, not both.
Adjacent(p, q) ==
    \/ p[2] = q[2] /\ (p[1] = q[1] + 1 \/ q[1] = p[1] + 1)
    \/ p[1] = q[1] /\ (p[2] = q[2] + 1 \/ q[2] = p[2] + 1)

\* C17 (Spec, as stated): after initializeBoard and after every update, each
\* two segments next to each other in the body are one unit step apart.
C17_SnakeContiguous ==
    \A i \in 1 .. Len(body) - 1 : Adjacent(body[i], body[i + 1])

\* The tag of the cell at a position as Board::getCellType reports it.
CellAt(g, pos) == IF pos \in DOMAIN g THEN g[pos] ELSE WALL

\* C18 (Spec, as stated): an update() with no pending input whose candidate
\* head is inside the grid, on no segment and not on the food makes the body
\* the candidate head followed by the old body without its last segment; the
\* cell of the old tail is Empty and the cell of the new head SnakeBody
\* afterwards; length and score are as before.
C18_PlainTranslation ==
    [][(/\ UpdateTick
        /\ atomicInput = NONE
        /\ Candidate \in DOMAIN grid
        /\ ~(Candidate \in SegmentSet(body))
        /\ ~(exists /\ Candidate = position)) =>
        /\ body' = <<Candidate>> \o SubSeq(body, 1, Len(body) - 1)
        /\ CellAt(grid', body[Len(body)]) = EMPTY
        /\ CellAt(grid', Candidate) = SNAKE
        /\ Len(body') = Len(body)
        /\ score' = score]_vars

\* The position n unit steps from pos in the direction d.
StepsFrom(pos, d, n) ==
    CASE d = UP    -> <<pos[1] - n, pos[2]>>
      [] d = DOWN  -> <<pos[1] + n, pos[2]>>
      [] d = LEFT  -> <<pos[1], pos[2] - n>>
      [] d = RIGHT -> <<pos[1], pos[2] + n>>

\* C19 (Spec, as stated): initializeBoard(rows, cols, L, p, d) leaves the head
\* at (rows/2, cols/2) and the i-th segment i unit steps from it in the
\* direction opposite to d, each of those cells tagged SnakeBody, and a
\* published first snapshot of that layout with score 0 and gameOver false.
C19_InitialLayout ==
    [][games' # games =>
        LET start == <<rows' \div 2, cols' \div 2>>
        IN  /\ body'[1] = start
            /\ \A i \in 1 .. Len(body') - 1 :
                  /\ current' \in Headings
                  /\ body'[i + 1] = StepsFrom(start, Opposite(current'), i)
            /\ \A i \in 1 .. Len(body') : CellAt(grid', body'[i]) = SNAKE
            /\ heap'[currentState'].score = 0
            /\ ~heap'[currentState'].gameOver
            /\ heap'[currentState'].snake = body'
            /\ heap'[currentState'].board = grid']_vars

\* C20 (Spec): a setInput/setDirection call, whatever its argument, leaves
\* the heading, the board, the snake, the food, the score, the terminal flag
\* and the publisher as they are; within a game a step that changes the
\* heading is the processInput of an update(): it empties the mailbox and
\* the new heading is the value it took.
C20_SetInputFrame ==
    [][/\ SetDirection =>
             UNCHANGED <<current, next, grid, rows, cols, body, growthPending,
                         position, exists, score, pointsPerFood, gameOver,
                         currentState, writeBuffer, readBuffer, heap>>
       /\ (current' # current /\ games' = games) =>
             /\ ~gameOver /\ ~early'
             /\ inputDir' = atomicInput /\ atomicInput' = NONE
             /\ current' = inputDir']_vars

\* C20 witness: in the middle of a game the last call was a setInput of the
\* opposite of the heading; the reversal is in the mailbox and the heading
\* and the published snapshot are those the last update() left.
C20_Witness ==
    /\ ret = "true" /\ ~gameOver /\ fresh
    /\ current \in Headings /\ atomicInput = Opposite(current)
    /\ requested = atomicInput
    /\ body[1] = UnitStep(body[2], current)
    /\ heap[currentState].snake = body /\ heap[currentState].board = grid

\* C21 (Spec): the mailbox holds the argument of the last setInput made
\* since the last take, and None when there was none: a take leaves None (no
\* request is taken twice) and hands over what the mailbox held, a setInput
\* leaves its argument (a request made after a take waits for the next
\* one), and no other step changes the mailbox.
C21_TakeAndClear ==
    [][/\ atomicInput = (IF fresh THEN requested ELSE NONE)
       /\ UpdateTick => (inputDir' = atomicInput /\ atomicInput' = NONE)
       /\ (atomicInput' # atomicInput) =>
             \/ fresh' /\ atomicInput' = requested'
             \/ ~fresh' /\ ~early' /\ atomicInput' = NONE
                /\ inputDir' = atomicInput]_vars

\* C21 witness: the last update() took a request; a setInput of another
\* direction has landed in the empty mailbox since and waits there.
C21_Witness ==
    /\ ret = "true" /\ ~early /\ ~gameOver
    /\ inputDir # NONE /\ current = inputDir
    /\ fresh /\ ~lostRequest
    /\ atomicInput # NONE /\ atomicInput = requested /\ atomicInput # inputDir

\* C22 (Spec): between the calls of the simulation thread getScore() and
\* isGameOver() return the simulation's own score and terminal flag; once an
\* update() has returned false isGameOver() returns true, and once it has
\* returned true isGameOver() returns false.
C22_ReturnAndSnapshotAgree ==
    [][/\ getScore' = score' /\ isGameOver' = gameOver'
       /\ Update => (ret' = "false" <=> isGameOver')
       /\ Update => (ret' = "true" <=> ~isGameOver')]_vars

\* C22 witness: an update() that ate has returned true; the snapshot shows
\* its score and a game that goes on.
C22_Witness ==
    /\ ret = "true" /\ ~early /\ score > 0
    /\ exists /\ newHead = body[1]
    /\ getScore = score /\ ~isGameOver /\ ~gameOver
    /\ heap[writeBuffer].score < score

\* The candidate head is outside the grid or on a segment other than the head.
Collides ==
    \/ ~(Candidate \in DOMAIN grid)
    \/ \E i \in 2 .. Len(body) : body[i] = Candidate

\* C23 (Spec): the pending-growth counter is 0 after initializeBoard and
\* after every update(), and an update() that moves ends the game exactly
\* when it leaves no food on the board.
C23_GrowthNeverCarriesOver ==
    [][/\ growthPending' = 0
       /\ (UpdateTick /\ ~Collides) => (gameOver' <=> ~exists')]_vars

\* C23 witness: the last update() ate and the snake is one segment longer
\* than in the snapshot before it, with no growth left pending.
C23_Witness ==
    /\ ret = "true" /\ ~early /\ growthPending = 0
    /\ newHead = body[1] /\ score = heap[writeBuffer].score + pointsPerFood
    /\ heap[writeBuffer].rows = rows
    /\ Len(body) = heap[writeBuffer].snakeLength + 1
    /\ Len(body) >= 3

\* C24 (SpecRestart, as stated): the first update() after an initializeBoard
\* call, with no setDirection call between the two, keeps the initial
\* direction as the heading and has its candidate head one step from the head
\* in that direction, whatever setDirection calls came before initializeBoard.
C24_CleanInputChannel ==
    [][(UpdateTick /\ newGame) =>
        /\ current' = current
        /\ newHead' = UnitStep(body[1], current)]_vars

\* C25 (Spec): an update() of a snake of two or more segments whose
\* candidate head is the position of the last segment sets the terminal
\* flag, returns false and does not move.
C25_TailIsCollision ==
    [][(UpdateTick /\ Len(body) >= 2 /\ Candidate = body[Len(body)]) =>
        /\ gameOver'
        /\ ret' = "false"
        /\ body' = body
        /\ heap'[currentState'].gameOver]_vars

\* C25 witness: the last update() ended the game by steering the head of a
\* snake of four or more segments, all apart and inside the grid, onto the
\* cell of its last segment, which is one step from the head.
C25_Witness ==
    /\ ret = "false" /\ ~early /\ gameOver
    /\ Len(body) >= 4 /\ newHead = body[Len(body)]
    /\ Adjacent(body[1], body[Len(body)])
    /\ \A i, j \in 1 .. Len(body) : i # j => body[i] # body[j]
    /\ \A i \in 1 .. Len(body) : body[i] \in DOMAIN grid /\ grid[body[i]] = SNAKE

Maximum(a, b) == IF a >= b THEN a ELSE b

\* C26 (Spec): a game started with an initial direction in {Up, Down, Left,
\* Right} in which setDirection has never been called is over once update()
\* has been called max(rows, cols) times: while it is not over, fewer calls
\* than that have been made.
C26_TerminatesWithoutSteering ==
    (games >= 1 /\ ~steered /\ current \in Headings /\ ~gameOver) =>
        ticks < Maximum(rows, cols)

\* C26 witness: a game nobody steered, on a board of more than one row and
\* column, ate on its way and ended on its max(rows, cols)-th update().
C26_Witness ==
    /\ games >= 1 /\ ~steered /\ current \in Headings
    /\ gameOver /\ ret = "false" /\ ~early
    /\ rows >= 2 /\ cols >= 2 /\ score > 0
    /\ ticks = Maximum(rows, cols)

=============================================================================
